---- MODULE Spec2Model ----
(***************************************************************************)
(* Model of the AURIS processing pipeline:                                 *)
(*   backend/app/services/processing_pipeline.py  ProcessingPipeline       *)
(*   backend/app/services/ollama_service.py       OllamaService            *)
(*   backend/app/services/evaluation_agent.py     EvaluationAgent          *)
(*   backend/app/services/analysis_agent.py       AnalysisAgent            *)
(*   backend/app/services/recommendation_agent.py RecommendationAgent      *)
(*   backend/app/routers/chat_logs.py             process / status routes  *)
(* One chat log id is followed through the process request, the background *)
(* task, the three stages and the status reader.  The inference backend is *)
(* the environment: it goes up and down at any time and chooses every      *)
(* reply.                                                                  *)
(*                                                                         *)
(* OllamaService as given defines get_default_model only; the pipeline and *)
(* the agents also call ollama_service.get_agent_default_model(stage),     *)
(* which no source file defines.  has_agent_default records which service  *)
(* is deployed: FALSE is the class as given (the call raises               *)
(* AttributeError), TRUE a service with the per-stage default of the       *)
(* resource manager (stage default, else first available).                 *)
(***************************************************************************)
EXTENDS Integers, Sequences, FiniteSets, TLC

\* ---------------------------------------------------------------- bounds
MaxRuns == 2
MaxAdherence == 4
MaxLen == 5

\* ------------------------------------------------------ program constants
max_retries == 3
NumGuidelines == 3
score_min == 1
score_max == 5

None == "None"
DEFAULT_MODEL == "deepseek"
Stages == {"evaluation", "analysis", "recommendation"}
Guidelines == 1..NumGuidelines
\* a guideline name that matches no configured guideline
OtherGuideline == NumGuidelines + 1
ModelLists == {<<>>, <<"deepseek">>, <<"llama">>, <<"llama", "deepseek">>}

VARIABLES
  ollama_up,          \* the backend answers GET /api/tags with 200
  models,             \* the backend's model list (names, in listing order)
  has_agent_default,  \* the deployed service defines get_agent_default_model
  loaded_models,      \* models the service reports as loaded (current_model)
  db_status,          \* chat_log.status in the database
  pc,                 \* position of the background task / pipeline
  run_no,             \* runs started so far (stands for processing_id)
  agents,             \* results["agents"]: stage -> status, "absent" if no key
  agent_err,          \* stage -> the agent's result carried an error_message
  overall_status,     \* results["overall_status"]
  cache,              \* results_cache[chat_log_id]
  available_models,   \* the pipeline's local available_models
  stage_model,        \* the model name chosen for the stage, passed as model_name
  gen,                \* generation requests issued in this run, per stage
  load_calls,         \* load_model calls made in this run
  attempt,            \* analyze_chat: attempt
  an_result,          \* analyze_chat: what it returned
  an_guidelines,      \* analyze_chat: the "guidelines" list of the result
  an_lists,           \* analyze_chat: key_issues / highlights of the result
  missing,            \* analyze_chat: missing, as last computed at line 202
  retry_reason,       \* analyze_chat: the warning of the last spent attempt
  eval_result,        \* evaluate_chat: what it returned
  eval_value,         \* evaluate_chat: the dict it returned
  rec_result,         \* generate_recommendations: what it returned
  rec_value,          \* generate_recommendations: the dict it returned
  selected_model,     \* the agent's selected_model
  exit_path,          \* the return statement process_chat_log left through
  obs,                \* what the status reader last saw in results_cache
  text,               \* _extract_first_valid_json: its argument
  parser_out,         \* _extract_first_valid_json: how the call ended
  other_pc            \* position of a run for another chat log id

vars == <<ollama_up, models, has_agent_default, loaded_models, db_status, pc,
          run_no, agents, agent_err, overall_status, cache, available_models,
          stage_model, gen, load_calls, attempt, an_result, an_guidelines,
          an_lists, missing, retry_reason, eval_result, eval_value, rec_result,
          rec_value, selected_model, exit_path, obs, text, parser_out, other_pc>>

env_vars == <<ollama_up, models, has_agent_default>>
analysis_vars == <<attempt, an_result, an_guidelines, an_lists, missing,
                   retry_reason>>
evaluation_vars == <<eval_result, eval_value>>
parser_vars == <<text, parser_out>>
recommendation_vars == <<rec_result, rec_value>>
agent_vars == <<analysis_vars, evaluation_vars, recommendation_vars,
                selected_model>>

\* ---------------------------------------------------------- OllamaService
\* self.current_model: the one slot get_current_model reports.
current_model == IF loaded_models = {} THEN None ELSE CHOOSE m \in loaded_models : TRUE

\* is_ollama_running()
is_ollama_running == ollama_up

\* get_available_models(): [] when the backend is not running
get_available_models == IF is_ollama_running THEN models ELSE <<>>

model_names(avail) == {avail[i] : i \in 1..Len(avail)}

\* load_model(model_name): the new value of the loaded set
load_model_keeps_previous(model_name) ==
  IF ~is_ollama_running THEN loaded_models
  ELSE IF model_name \notin model_names(get_available_models) THEN loaded_models
  ELSE loaded_models \cup {model_name}

load_model(model_name) ==
  IF ~is_ollama_running THEN loaded_models
  ELSE IF model_name \notin model_names(get_available_models) THEN loaded_models
  ELSE {model_name}

\* unload_model(): the new value of the loaded set
unload_model ==
  IF ~is_ollama_running THEN loaded_models
  ELSE {}

\* get_default_model()
get_default_model == DEFAULT_MODEL

\* get_agent_default_model(stage), for a service that defines it
get_agent_default_model(stage) ==
  IF stage = "analysis" THEN "llama" ELSE "deepseek"

\* the pipeline's choice: the default when listed, else the first listed
choose_model(default, avail) ==
  IF default \in model_names(avail) THEN default ELSE avail[1]

\* --------------------------------------------------------------- results
NoAgents == [s \in Stages |-> "absent"]
NoErr == [s \in Stages |-> FALSE]
NoGen == [s \in Stages |-> 0]
NoCache == [present |-> FALSE, aliased |-> FALSE, overall_status |-> "none", run |-> 0]
NoObs == [run |-> 0, agents |-> NoAgents, overall_status |-> "none"]
\* _extract_first_valid_json has not been called
NoParse == [kind |-> "pending", obj |-> <<>>]
\* evaluate_chat has returned nothing (yet)
NoValue == [error_message |-> None, result |-> None]
\* analyze_chat has returned nothing (yet); of each list: it is non-empty
NoLists == [key_issues |-> FALSE, highlights |-> FALSE]
\* generate_recommendations has returned nothing (yet)
NoRecValue == [error_message |-> None, specific_feedback |-> <<>>,
               long_term_coaching |-> None, raw_output |-> ""]

\* self.results_cache[chat_log_id] = results.copy(): a shallow copy, so the
\* top-level overall_status is copied and the agents dict stays shared.
results_copy(overall) ==
  [present |-> TRUE, aliased |-> FALSE, overall_status |-> overall, run |-> run_no]

\* results["overall_status"] = v, seen through the cache while the cache
\* entry is still the results object itself
cache_after_status(v) ==
  IF cache.aliased THEN [cache EXCEPT !.overall_status = v] ELSE cache

\* what a reader of results_cache[chat_log_id] sees
cache_view ==
  [run |-> cache.run, agents |-> agents, overall_status |-> cache.overall_status]

Init ==
  /\ ollama_up \in BOOLEAN
  /\ models \in ModelLists
  /\ has_agent_default \in BOOLEAN
  /\ loaded_models = {}
  /\ db_status = "pending"
  /\ pc = "idle"
  /\ run_no = 0
  /\ agents = NoAgents
  /\ agent_err = NoErr
  /\ overall_status = "none"
  /\ cache = NoCache
  /\ available_models = <<>>
  /\ stage_model = None
  /\ gen = NoGen
  /\ load_calls = 0
  /\ attempt = 0
  /\ an_result = "none"
  /\ an_guidelines = <<>>
  /\ an_lists = NoLists
  /\ missing = {}
  /\ retry_reason = "none"
  /\ eval_result = "none"
  /\ eval_value = NoValue
  /\ rec_result = "none"
  /\ rec_value = NoRecValue
  /\ selected_model = None
  /\ exit_path = "none"
  /\ obs = NoObs
  /\ text = <<>>
  /\ parser_out = NoParse
  /\ other_pc = "idle"

\* ------------------------------------------------------------ environment
\* the backend stops or starts answering
BackendToggle ==
  /\ ollama_up' = ~ollama_up
  /\ UNCHANGED <<models, has_agent_default, parser_vars, other_pc, loaded_models, db_status, pc, run_no,
                 agents, agent_err, overall_status, cache, available_models,
                 stage_model, gen, load_calls, agent_vars, exit_path, obs>>

\* ----------------------------------------------------------------- router
\* POST /{chat_log_id}/process
process_chat_log_route_while_processing ==
  /\ run_no < MaxRuns
  /\ db_status # "completed"
  /\ db_status' = "processing"
  /\ pc' = "start"
  /\ UNCHANGED <<env_vars, parser_vars, other_pc, loaded_models, run_no, agents, agent_err,
                 overall_status, cache, available_models, stage_model, gen,
                 load_calls, agent_vars, exit_path, obs>>

process_chat_log_route_unguarded ==
  /\ run_no < MaxRuns
  /\ db_status # "processing"
  /\ db_status' = "processing"
  /\ pc' = "start"
  /\ UNCHANGED <<env_vars, parser_vars, other_pc, loaded_models, run_no, agents, agent_err,
                 overall_status, cache, available_models, stage_model, gen,
                 load_calls, agent_vars, exit_path, obs>>

process_chat_log_route ==
  /\ run_no < MaxRuns
  /\ db_status \notin {"processing", "completed"}
  /\ db_status' = "processing"
  /\ pc' = "start"
  /\ UNCHANGED <<env_vars, parser_vars, other_pc, loaded_models, run_no, agents, agent_err,
                 overall_status, cache, available_models, stage_model, gen,
                 load_calls, agent_vars, exit_path, obs>>

\* chat_logs.py 645-740: the row process_chat_log_background stores for stage
\* s from results['agents'] of the finished run: none for a stage that is not
\* in results['agents'], a row with error_message for a failed stage, and for
\* a completed stage a row whose error_message is result.get("error_message").
\* The evaluation result of a completed stage is the inner score object, which
\* has no such key.  Rows left by earlier runs of the same chat log are not
\* tracked, so this is the stored state after the first run only.
stored_row(s) ==
  CASE agents[s] = "failed" -> "error"
    [] agents[s] = "completed" ->
         IF s # "evaluation" /\ agent_err[s] THEN "error" ELSE "ok"
    [] OTHER -> "none"

\* chat_logs.py 196-266: progress[s] as get_processing_status derives it from
\* the stored row.
progress(s) ==
  CASE stored_row(s) = "none" -> "pending"
    [] stored_row(s) = "error" -> "failed"
    [] OTHER -> "completed"

\* chat_logs.py 268-274: the status field of the answer.
endpoint_status ==
  IF \A s \in Stages : progress(s) = "completed" THEN "completed"
  ELSE IF \E s \in Stages : progress(s) = "failed" THEN "failed"
  ELSE "processing"

\* GET /{chat_log_id}/status reading processing_pipeline.results_cache
get_processing_status ==
  /\ cache.present
  /\ obs' = cache_view
  /\ UNCHANGED <<env_vars, parser_vars, other_pc, loaded_models, db_status, pc, run_no, agents,
                 agent_err, overall_status, cache, available_models,
                 stage_model, gen, load_calls, agent_vars, exit_path>>

\* --------------------------------------------------------------- pipeline
\* process_chat_log, lines 33-41: a new results object, stored in the cache
PipelineStart ==
  /\ pc = "start"
  /\ run_no' = run_no + 1
  /\ agents' = NoAgents
  /\ agent_err' = NoErr
  /\ overall_status' = "processing"
  /\ cache' = [present |-> TRUE, aliased |-> TRUE,
               overall_status |-> "processing", run |-> run_no + 1]
  /\ available_models' = <<>>
  /\ stage_model' = None
  /\ gen' = NoGen
  /\ load_calls' = 0
  /\ attempt' = 0
  /\ an_result' = "none"
  /\ an_guidelines' = <<>>
  /\ an_lists' = NoLists
  /\ missing' = {}
  /\ retry_reason' = "none"
  /\ eval_result' = "none"
  /\ eval_value' = NoValue
  /\ rec_result' = "none"
  /\ rec_value' = NoRecValue
  /\ selected_model' = None
  /\ exit_path' = "none"
  /\ pc' = "check"
  /\ UNCHANGED <<env_vars, parser_vars, other_pc, loaded_models, db_status, obs>>

\* lines 45-51: the backend check and its early return
CheckOllama_no_return ==
  /\ pc = "check"
  /\ IF ~is_ollama_running
       THEN /\ overall_status' = "failed"
            /\ cache' = cache_after_status("failed")
            /\ exit_path' = "ollama"
            /\ pc' = "models"
       ELSE /\ pc' = "models"
            /\ UNCHANGED <<overall_status, cache, exit_path>>
  /\ UNCHANGED <<env_vars, parser_vars, other_pc, loaded_models, db_status, run_no, agents, agent_err,
                 available_models, stage_model, gen, load_calls, agent_vars, obs>>

CheckOllama ==
  /\ pc = "check"
  /\ IF ~is_ollama_running
       THEN /\ overall_status' = "failed"
            /\ cache' = cache_after_status("failed")
            /\ exit_path' = "ollama"
            /\ pc' = "returned"
       ELSE /\ pc' = "models"
            /\ UNCHANGED <<overall_status, cache, exit_path>>
  /\ UNCHANGED <<env_vars, parser_vars, other_pc, loaded_models, db_status, run_no, agents, agent_err,
                 available_models, stage_model, gen, load_calls, agent_vars, obs>>

\* lines 53-61: the model list and its early return
GetModels ==
  /\ pc = "models"
  /\ IF get_available_models = <<>>
       THEN /\ overall_status' = "failed"
            /\ cache' = cache_after_status("failed")
            /\ exit_path' = "models"
            /\ pc' = "returned"
            /\ UNCHANGED available_models
       ELSE /\ available_models' = get_available_models
            /\ pc' = "eval_load"
            /\ UNCHANGED <<overall_status, cache, exit_path>>
  /\ UNCHANGED <<env_vars, parser_vars, other_pc, loaded_models, db_status, run_no, agents, agent_err,
                 stage_model, gen, load_calls, agent_vars, obs>>

\* the outer handler, lines 189-194
pipeline_exception_keeps_status ==
  /\ overall_status' = overall_status
  /\ cache' = results_copy(overall_status)
  /\ exit_path' = "handler"
  /\ pc' = "returned"

pipeline_exception ==
  /\ overall_status' = "failed"
  /\ cache' = results_copy("failed")
  /\ exit_path' = "handler"
  /\ pc' = "returned"

\* lines 63-68: choose and load the evaluation model
EvalLoad ==
  /\ pc = "eval_load"
  /\ stage_model' = choose_model(get_default_model, available_models)
  /\ loaded_models' = load_model(stage_model')
  /\ load_calls' = load_calls + 1
  /\ pc' = "eval_gen"
  /\ UNCHANGED <<env_vars, parser_vars, other_pc, db_status, run_no, agents, agent_err, overall_status,
                 cache, available_models, gen, agent_vars, exit_path, obs>>

\* json.loads reads the token NaN as float("nan"); the model writes it as a
\* number outside every range and compares it as Python does
NaN == score_min - 2

\* a < b and a > b of Python: False whenever an operand is NaN
py_lt(a, b) == a # NaN /\ b # NaN /\ a < b
py_gt(a, b) == a # NaN /\ b # NaN /\ a > b

\* scores a reply can carry: the ends of the accepted range, the values next
\* to them and NaN; for resolution 0, 1, 2 and NaN
ScoreValues == {NaN, score_min - 1, score_min, score_max, score_max + 1}
ResolutionValues == {NaN, 0, 1, 2}
\* lines 93-96 put the same test to coherence, relevance and politeness, so
\* one assignment per multiset of their three values is drawn
Scores ==
  {p \in [coherence : ScoreValues, relevance : ScoreValues,
          politeness : ScoreValues, resolution : ResolutionValues] :
     p.coherence <= p.relevance /\ p.relevance <= p.politeness}
NoScores == [coherence |-> score_min, relevance |-> score_min,
             politeness |-> score_min, resolution |-> 0]

\* replies generate_evaluation can hand to evaluate_chat: an "Error..."
\* string, text that is not JSON, JSON that lacks a required field, or an
\* object with the four fields and their scores
EvalError == [kind |-> "error", scores |-> NoScores]

\* "generated" is text the model produced (a 200 response) whose first
\* characters are "Error"
EvalReplies ==
  {[kind |-> k, scores |-> NoScores] :
     k \in {"error", "generated", "unparseable", "invalid"}}
    \cup [kind : {"object"}, scores : Scores]

\* generate_evaluation answers "Error: Ollama is not running" when it is down
backend_replies(all, err) == IF is_ollama_running THEN all ELSE err

\* lines 92-101: the range checks on the four scores (every score drawn is
\* an int or a float, so isinstance holds)
valid_scores(p) ==
  /\ \A f \in {"coherence", "relevance", "politeness"} :
       ~(py_lt(p[f], score_min) \/ py_gt(p[f], score_max))
  /\ p.resolution \in {0, 1}

\* lines 48-119: what evaluate_chat returns for a reply it does not accept;
\* line 48 takes every reply that starts with "Error" and returns the reply
\* itself as error_message
eval_error(r) ==
  CASE r.kind = "error" -> "reply"
    [] r.kind = "generated" -> "generated"
    [] r.kind = "unparseable" -> "json"
    [] r.kind = "invalid" -> "structure"
    [] OTHER -> "range"

\* lines 31-33: the model_name given, else the configured default
model_name_or_default(model_name) ==
  IF model_name = None THEN get_default_model ELSE model_name

\* evaluate_chat, lines 28-119: the request, the parse and the validation
EvalGenerate ==
  /\ pc = "eval_gen"
  /\ selected_model' = model_name_or_default(stage_model)
  /\ \E r \in backend_replies(EvalReplies, {EvalError}) :
       /\ gen' = [gen EXCEPT !["evaluation"] = @ + 1]
       /\ IF r.kind = "object" /\ valid_scores(r.scores)
            THEN /\ pc' = "eval_summary"
                 /\ eval_value' = [error_message |-> None, result |-> r.scores]
                 /\ UNCHANGED eval_result
            ELSE /\ eval_result' = "error"
                 /\ eval_value' = [error_message |-> eval_error(r), result |-> None]
                 /\ pc' = "eval_finally"
  /\ UNCHANGED <<env_vars, parser_vars, other_pc, loaded_models, db_status, run_no, agents, agent_err,
                 overall_status, cache, available_models, stage_model,
                 load_calls, analysis_vars, recommendation_vars,
                 exit_path, obs>>

\* evaluate_chat, lines 121-131 with _generate_evaluation_summary: a second
\* request, whose error only selects the fallback summary
EvalSummary ==
  /\ pc = "eval_summary"
  /\ gen' = [gen EXCEPT !["evaluation"] = @ + 1]
  /\ eval_result' = "ok"
  /\ pc' = "eval_finally"
  /\ UNCHANGED <<env_vars, parser_vars, other_pc, loaded_models, db_status, run_no, agents, agent_err,
                 overall_status, cache, available_models, stage_model,
                 load_calls, analysis_vars, eval_value, recommendation_vars,
                 selected_model, exit_path, obs>>

\* evaluate_chat, lines 139-145: the finally block unloads
EvalFinally_skips_record ==
  /\ pc = "eval_finally"
  /\ loaded_models' = unload_model
  /\ pc' = "an_load"
  /\ UNCHANGED <<env_vars, parser_vars, other_pc, db_status, run_no, agents, agent_err, overall_status,
                 cache, available_models, stage_model, gen, load_calls,
                 agent_vars, exit_path, obs>>

EvalFinally ==
  /\ pc = "eval_finally"
  /\ loaded_models' = unload_model
  /\ pc' = "eval_record"
  /\ UNCHANGED <<env_vars, parser_vars, other_pc, db_status, run_no, agents, agent_err, overall_status,
                 cache, available_models, stage_model, gen, load_calls,
                 agent_vars, exit_path, obs>>

\* lines 70-84: unload, record the evaluation outcome, snapshot.  Of
\* evaluation_result the model keeps the status and the error flag.
EvalRecord ==
  /\ pc = "eval_record"
  /\ loaded_models' = unload_model
  /\ agents' = [agents EXCEPT !["evaluation"] =
                  IF eval_result = "error" THEN "failed" ELSE "completed"]
  /\ agent_err' = [agent_err EXCEPT !["evaluation"] = (eval_result = "error")]
  /\ overall_status' = IF eval_result = "error" THEN "processing" ELSE overall_status
  /\ cache' = results_copy(overall_status')
  /\ eval_value' = NoValue
  /\ pc' = "an_load"
  /\ UNCHANGED <<env_vars, parser_vars, other_pc, db_status, run_no, available_models, stage_model,
                 gen, load_calls, analysis_vars, eval_result,
                 recommendation_vars, selected_model, exit_path, obs>>

\* lines 86-91: choose and load the analysis model
AnalysisLoad ==
  /\ pc = "an_load"
  /\ IF ~has_agent_default
       THEN /\ pipeline_exception
            /\ UNCHANGED <<stage_model, loaded_models, load_calls>>
       ELSE /\ stage_model' = choose_model(get_agent_default_model("analysis"),
                                           available_models)
            /\ loaded_models' = load_model(stage_model')
            /\ load_calls' = load_calls + 1
            /\ pc' = "an_start"
            /\ UNCHANGED <<overall_status, cache, exit_path>>
  /\ UNCHANGED <<env_vars, parser_vars, other_pc, db_status, run_no, agents, agent_err,
                 available_models, gen, agent_vars, obs>>

\* lines 145-150 of analyze_chat (52-57 of generate_recommendations): the
\* model_name when given and listed, else the stage default when listed,
\* else the first listed; "raises" where the service has no stage default
select_model(name, stage, avail) ==
  IF name # None /\ name \in model_names(avail) THEN name
  ELSE IF ~has_agent_default THEN "raises"
  ELSE choose_model(get_agent_default_model(stage), avail)

\* get_guidelines(None): the configured guidelines, in order
get_guidelines == [i \in 1..NumGuidelines |-> i]

Range(f) == {f[i] : i \in DOMAIN f}

\* _fallback_result, lines 237-253: the "guidelines" list it builds
fallback_result_skips_first(guidelines_list) ==
  [i \in 1..(Len(guidelines_list) - 1) |->
     [name |-> guidelines_list[i + 1], passed |-> FALSE,
      description |-> "Unable to analyze due to error."]]

fallback_result(guidelines_list) ==
  [i \in 1..Len(guidelines_list) |->
     [name |-> guidelines_list[i], passed |-> FALSE,
      description |-> "Unable to analyze due to error."]]

\* analyze_chat, lines 138-168: the checks before the retry loop
AnalysisStart ==
  /\ pc = "an_start"
  /\ IF ~is_ollama_running
       THEN /\ an_result' = "not_running"
            /\ an_guidelines' = fallback_result(get_guidelines)
            /\ pc' = "an_record"
            /\ UNCHANGED selected_model
       ELSE IF get_available_models = <<>>
       THEN /\ an_result' = "no_models"
            /\ an_guidelines' = fallback_result(get_guidelines)
            /\ pc' = "an_record"
            /\ UNCHANGED selected_model
       ELSE IF select_model(stage_model, "analysis", get_available_models) = "raises"
       THEN /\ an_result' = "exception_select"
            /\ an_guidelines' = fallback_result(get_guidelines)
            /\ pc' = "an_record"
            /\ UNCHANGED selected_model
       ELSE /\ an_result' = "none"
            /\ an_guidelines' = <<>>
            /\ selected_model' = select_model(stage_model, "analysis",
                                              get_available_models)
            /\ pc' = "an_attempt"
  /\ attempt' = 0
  /\ an_lists' = NoLists
  /\ missing' = {}
  /\ retry_reason' = "none"
  /\ UNCHANGED <<env_vars, parser_vars, other_pc, loaded_models, db_status, run_no, agents, agent_err,
                 overall_status, cache, available_models, stage_model, gen,
                 load_calls, evaluation_vars, recommendation_vars, exit_path,
                 obs>>

\* replies test_generation can hand to analyze_chat.  kind: an "Error: ..."
\* string, prose without a brace span, a brace span that evaluates to a value
\* that is not a dict (ast.literal_eval of "{1, 2}" is a set), or an object.
\* Of an object: whether key_issues / positive_highlights are non-empty, the
\* guideline names of its guideline_adherence entries in the order given
\* (configured names may repeat, OtherGuideline is no configured name), and
\* the shape of those entries (dicts whose status is "Passed", dicts whose
\* status is "Failed", dicts without a status, not dicts).
NoObject(k) ==
  [kind |-> k, issues |-> FALSE, highlights |-> FALSE, adherence |-> <<>>,
   entries |-> "Failed"]

\* lists of up to MaxAdherence names; lines 156-164 and 208-214 treat every
\* entry alike wherever it stands, so one order per multiset of names is
\* drawn.  Of a list that lacks a configured guideline lines 156-164 keep only
\* which guidelines it names (the result is never built from it), so of
\* those lists one per set of named guidelines is drawn.
AdherenceLists ==
  {a \in UNION {[1..n -> Guidelines \cup {OtherGuideline}] : n \in 0..MaxAdherence} :
     /\ \A i \in 1..(Len(a) - 1) : a[i] <= a[i + 1]
     /\ \/ Guidelines \subseteq Range(a)
        \/ /\ Range(a) \subseteq Guidelines
           /\ \A i \in 1..(Len(a) - 1) : a[i] < a[i + 1]}

\* the replies that parse to an object with a key issue or a highlight
ContentReplies ==
  {r \in [kind : {"object"}, issues : BOOLEAN, highlights : BOOLEAN,
          adherence : AdherenceLists,
          entries : {"Passed", "Failed", "nostatus", "nondict"}] :
     r.issues \/ r.highlights}

\* Line 201 looks no further into an object whose key_issues and
\* positive_highlights are both empty: of those objects one is drawn.
AnalysisReplies ==
  {NoObject(k) : k \in {"error", "prose", "nondict", "object"}} \cup
  {r : r \in ContentReplies}

\* _extract_first_valid_json: None, the parsed object, or the AttributeError
\* of obj.keys() (line 88) on a candidate that is not a dict
extract_first_valid_json(r) ==
  CASE r.kind = "object" -> "parsed"
    [] r.kind = "nondict" -> "raises"
    [] OTHER -> "None"

\* missing_guidelines(parsed), lines 156-164
missing_guidelines(r) == Guidelines \ Range(r.adherence)

\* lines 208-214: the "guidelines" list of an accepted result, one entry per
\* guideline_adherence entry of the reply
accepted_guidelines(r) ==
  [i \in 1..Len(r.adherence) |->
     [name |-> r.adherence[i], passed |-> (r.entries = "Passed"),
      description |-> "details"]]

\* lines 206-207: key_issues and highlights of an accepted result, as given
accepted_lists(r) == [key_issues |-> r.issues, highlights |-> r.highlights]

\* line 201: a parsed object with a key issue or a positive highlight
has_content(r) ==
  extract_first_valid_json(r) = "parsed" /\ (r.issues \/ r.highlights)

\* one pass of the loop body, lines 197-230: the result is accepted, the
\* attempt is spent, or an exception leaves the loop for the handler of
\* line 232 (in the parser, in missing_guidelines on an entry that is not a
\* dict, or in g["status"] while the accepted result is built)
attempt_outcome(r) ==
  LET parsed == extract_first_valid_json(r) IN
  IF parsed = "raises" THEN "exception_parse"
  ELSE IF has_content(r)
    THEN IF r.adherence # <<>> /\ r.entries = "nondict" THEN "exception_validate"
         ELSE IF missing_guidelines(r) = {}
           THEN IF r.entries = "nostatus" THEN "exception_build" ELSE "accepted"
           ELSE "retry"
    ELSE "retry"

\* lines 170-175: the extra_instructions of the prompt of attempt a.  Of the
\* text: whether it asks for a key issue or a highlight, whether it asks for
\* all guidelines, and the guidelines it names.  The text is one constant
\* string, so it names none.
NoInstructions == [lists |-> FALSE, all_guidelines |-> FALSE, named |-> {}]

extra_instructions(a) ==
  IF a > 0 THEN [lists |-> TRUE, all_guidelines |-> TRUE, named |-> {}]
  ELSE NoInstructions

\* the loop condition of analyze_chat, line 169
loop_continues_inclusive(a) == a <= max_retries

loop_continues(a) == a < max_retries

\* analyze_chat, lines 169-234: one iteration of the retry loop; the
\* fallback of line 231 follows when the loop condition fails
AnalysisAttempt ==
  /\ pc = "an_attempt"
  /\ loop_continues(attempt)
  /\ UNCHANGED <<env_vars, parser_vars, other_pc, loaded_models, db_status, run_no, agents, agent_err,
                 overall_status, cache, available_models, stage_model,
                 load_calls, evaluation_vars, recommendation_vars,
                 selected_model, exit_path, obs>>
  /\ gen' = [gen EXCEPT !["analysis"] = @ + 1]
  /\ \E r \in backend_replies(AnalysisReplies, {NoObject("error")}) :
       LET outcome == attempt_outcome(r) IN
       /\ IF outcome = "retry"
            THEN /\ attempt' = attempt + 1
                 /\ retry_reason' = IF has_content(r) THEN "missing" ELSE "empty"
                 /\ UNCHANGED an_lists
                 /\ IF loop_continues(attempt + 1)
                      THEN UNCHANGED <<an_result, an_guidelines, pc>>
                      ELSE /\ an_result' = "exhausted"
                           /\ an_guidelines' = fallback_result(get_guidelines)
                           /\ pc' = "an_record"
            ELSE /\ an_result' = outcome
                 /\ an_lists' = IF outcome = "accepted"
                                  THEN accepted_lists(r) ELSE NoLists
                 /\ an_guidelines' = IF outcome = "accepted"
                                       THEN accepted_guidelines(r)
                                       ELSE fallback_result(get_guidelines)
                 /\ pc' = "an_record"
                 /\ UNCHANGED <<attempt, retry_reason>>
       /\ missing' = IF has_content(r) /\ outcome # "exception_validate"
                       THEN missing_guidelines(r) ELSE missing

\* lines 92-119: analyze_chat has returned; record the outcome, snapshot,
\* unload.  Of analysis_result the model keeps the status and the error flag;
\* the locals of the finished call are gone.
AnalysisRecord_replaces_agents ==
  /\ pc = "an_record"
  /\ agents' = [NoAgents EXCEPT !["analysis"] = "completed"]
  /\ agent_err' = [agent_err EXCEPT !["analysis"] = (an_result # "accepted")]
  /\ cache' = results_copy(overall_status)
  /\ loaded_models' = unload_model
  /\ an_guidelines' = <<>>
  /\ an_lists' = NoLists
  /\ missing' = {}
  /\ retry_reason' = "none"
  /\ pc' = "rec_load"
  /\ UNCHANGED <<env_vars, parser_vars, other_pc, db_status, run_no, overall_status, available_models,
                 stage_model, gen, load_calls, attempt, an_result,
                 evaluation_vars, recommendation_vars, selected_model,
                 exit_path, obs>>

AnalysisRecord ==
  /\ pc = "an_record"
  /\ agents' = [agents EXCEPT !["analysis"] = "completed"]
  /\ agent_err' = [agent_err EXCEPT !["analysis"] = (an_result # "accepted")]
  /\ cache' = results_copy(overall_status)
  /\ loaded_models' = unload_model
  /\ an_guidelines' = <<>>
  /\ an_lists' = NoLists
  /\ missing' = {}
  /\ retry_reason' = "none"
  /\ pc' = "rec_load"
  /\ UNCHANGED <<env_vars, parser_vars, other_pc, db_status, run_no, overall_status, available_models,
                 stage_model, gen, load_calls, attempt, an_result,
                 evaluation_vars, recommendation_vars, selected_model,
                 exit_path, obs>>

\* lines 121-126: choose and load the recommendation model
RecommendationLoad ==
  /\ pc = "rec_load"
  /\ IF ~has_agent_default
       THEN /\ pipeline_exception
            /\ UNCHANGED <<stage_model, loaded_models, load_calls>>
       ELSE /\ stage_model' = choose_model(get_agent_default_model("recommendation"),
                                           available_models)
            /\ loaded_models' = load_model(stage_model')
            /\ load_calls' = load_calls + 1
            /\ pc' = "rec_start"
            /\ UNCHANGED <<overall_status, cache, exit_path>>
  /\ UNCHANGED <<env_vars, parser_vars, other_pc, db_status, run_no, agents, agent_err,
                 available_models, gen, agent_vars, obs>>

\* generate_recommendations, lines 36-50 and 150-157: the dict returned with
\* an error_message
recommendation_fallback(reason) ==
  IF reason \in {"not_running", "no_models"}
    THEN [error_message |-> reason, specific_feedback |-> <<>>,
          long_term_coaching |-> None, raw_output |-> ""]
    ELSE [error_message |-> reason,
          specific_feedback |-> <<"No feedback available.">>,
          long_term_coaching |-> "No coaching available.", raw_output |-> ""]

\* generate_recommendations, lines 35-57: the checks before the two prompts
RecommendationStart ==
  /\ pc = "rec_start"
  /\ IF ~is_ollama_running
       THEN /\ rec_result' = "not_running"
            /\ rec_value' = recommendation_fallback("not_running")
            /\ pc' = "rec_record"
            /\ UNCHANGED selected_model
       ELSE IF get_available_models = <<>>
       THEN /\ rec_result' = "no_models"
            /\ rec_value' = recommendation_fallback("no_models")
            /\ pc' = "rec_record"
            /\ UNCHANGED selected_model
       ELSE IF select_model(stage_model, "recommendation", get_available_models) = "raises"
       THEN /\ rec_result' = "exception_select"
            /\ rec_value' = recommendation_fallback("exception_select")
            /\ pc' = "rec_record"
            /\ UNCHANGED selected_model
       ELSE /\ rec_result' = "none"
            /\ rec_value' = NoRecValue
            /\ selected_model' = select_model(stage_model, "recommendation",
                                              get_available_models)
            /\ pc' = "rec_feedback"
  /\ UNCHANGED <<env_vars, parser_vars, other_pc, loaded_models, db_status, run_no, agents, agent_err,
                 overall_status, cache, available_models, stage_model, gen,
                 load_calls, analysis_vars, evaluation_vars, exit_path, obs>>

\* the string test_generation returns when the request fails or times out
ErrorString == "Error: Request timed out - model generation took too long"

\* replies test_generation can hand to generate_recommendations: ErrorString,
\* the empty string, or text in the format the prompt asks for
RecReplies == {"error", "empty", "formatted"}

\* lines 85-123: the feedback pairs found in the reply, else the placeholder
parse_feedback(reply) ==
  IF reply = "formatted" THEN <<"pair">> ELSE <<"No feedback available.">>

\* lines 125-137: the text after "Long-term Coaching:", else the whole reply,
\* else the placeholder when that is empty
parse_coaching(reply) ==
  CASE reply = "formatted" -> "advice"
    [] reply = "error" -> ErrorString
    [] OTHER -> "No coaching available."

\* generate_recommendations, lines 79 and 85-123: the feedback prompt and the
\* parse of its reply
RecommendationFeedback ==
  /\ pc = "rec_feedback"
  /\ gen' = [gen EXCEPT !["recommendation"] = @ + 1]
  /\ \E reply \in backend_replies(RecReplies, {"error"}) :
       rec_value' = [rec_value EXCEPT !.specific_feedback = parse_feedback(reply)]
  /\ pc' = "rec_coaching"
  /\ UNCHANGED <<env_vars, parser_vars, other_pc, loaded_models, db_status, run_no, agents, agent_err,
                 overall_status, cache, available_models, stage_model,
                 load_calls, analysis_vars, evaluation_vars, rec_result,
                 selected_model, exit_path, obs>>

\* generate_recommendations, lines 81 and 125-149: the coaching prompt and
\* the parse of its reply; the result has error_message None
RecommendationCoaching ==
  /\ pc = "rec_coaching"
  /\ gen' = [gen EXCEPT !["recommendation"] = @ + 1]
  /\ \E reply \in backend_replies(RecReplies, {"error"}) :
       rec_value' = [rec_value EXCEPT !.long_term_coaching = parse_coaching(reply),
                                      !.raw_output = "replies"]
  /\ rec_result' = "ok"
  /\ pc' = "rec_record"
  /\ UNCHANGED <<env_vars, parser_vars, other_pc, loaded_models, db_status, run_no, agents, agent_err,
                 overall_status, cache, available_models, stage_model,
                 load_calls, analysis_vars, evaluation_vars,
                 selected_model, exit_path, obs>>

\* lines 127-165: record the recommendation outcome, snapshot, unload.  Of
\* recommendation_result the model keeps the status and the error flag.
RecommendationRecord ==
  /\ pc = "rec_record"
  /\ agents' = [agents EXCEPT !["recommendation"] = "completed"]
  /\ agent_err' = [agent_err EXCEPT !["recommendation"] = (rec_result # "ok")]
  /\ cache' = results_copy(overall_status)
  /\ loaded_models' = unload_model
  /\ rec_value' = NoRecValue
  /\ pc' = "aggregate"
  /\ UNCHANGED <<env_vars, parser_vars, other_pc, db_status, run_no, overall_status, available_models,
                 stage_model, gen, load_calls, analysis_vars, evaluation_vars,
                 rec_result, selected_model, exit_path, obs>>

\* lines 167-175: the overall status from the recorded stages
failed_agents(ag) == {s \in Stages : ag[s] = "failed"}
recorded_agents(ag) == {s \in Stages : ag[s] # "absent"}

determine_overall_any_failed(ag) ==
  IF failed_agents(ag) # {} THEN "failed" ELSE "completed"

determine_overall(ag) ==
  IF failed_agents(ag) # {}
    THEN IF Cardinality(failed_agents(ag)) = Cardinality(recorded_agents(ag))
           THEN "failed" ELSE "completed"
    ELSE "completed"

\* lines 167-187: aggregate, snapshot, final unload, return
Aggregate ==
  /\ pc = "aggregate"
  /\ overall_status' = determine_overall(agents)
  /\ cache' = results_copy(overall_status')
  /\ loaded_models' = unload_model
  /\ exit_path' = "normal"
  /\ pc' = "returned"
  /\ UNCHANGED <<env_vars, parser_vars, other_pc, db_status, run_no, agents, agent_err,
                 available_models, stage_model, gen, load_calls, agent_vars, obs>>

\* chat_logs.py process_chat_log_background: store the records and set the
\* chat log's status from results["overall_status"]
process_chat_log_background ==
  /\ pc = "returned"
  /\ db_status' = CASE overall_status = "completed" -> "completed"
                    [] overall_status = "failed" -> "failed"
                    [] OTHER -> "completed"
  /\ pc' = "idle"
  /\ UNCHANGED <<env_vars, parser_vars, other_pc, loaded_models, run_no, agents, agent_err,
                 overall_status, cache, available_models, stage_model, gen,
                 load_calls, agent_vars, exit_path, obs>>

Next ==
  \/ BackendToggle
  \/ process_chat_log_route
  \/ get_processing_status
  \/ PipelineStart
  \/ CheckOllama
  \/ GetModels
  \/ EvalLoad
  \/ EvalGenerate
  \/ EvalSummary
  \/ EvalFinally
  \/ EvalRecord
  \/ AnalysisLoad
  \/ AnalysisStart
  \/ AnalysisAttempt
  \/ AnalysisRecord
  \/ RecommendationLoad
  \/ RecommendationStart
  \/ RecommendationFeedback
  \/ RecommendationCoaching
  \/ RecommendationRecord
  \/ Aggregate
  \/ process_chat_log_background

Spec == Init /\ [][Next]_vars

\* The steps of one run: the background task and the pipeline call it awaits
\* (chat_logs.py 641).  They are the statements of one coroutine, executed in
\* order; each waits at most for a backend call, and every backend call has a
\* timeout (ollama_service.py 25, 37, 148, 186), so a step that can be taken
\* is taken.
RunStep ==
  \/ PipelineStart
  \/ CheckOllama
  \/ GetModels
  \/ EvalLoad
  \/ EvalGenerate
  \/ EvalSummary
  \/ EvalFinally
  \/ EvalRecord
  \/ AnalysisLoad
  \/ AnalysisStart
  \/ AnalysisAttempt
  \/ AnalysisRecord
  \/ RecommendationLoad
  \/ RecommendationStart
  \/ RecommendationFeedback
  \/ RecommendationCoaching
  \/ RecommendationRecord
  \/ Aggregate
  \/ process_chat_log_background

\* Requests to the process route and changes of the backend come from
\* outside and are under no obligation to happen.
NextLive ==
  \/ BackendToggle
  \/ process_chat_log_route
  \/ RunStep

SpecLive == Init /\ [][NextLive]_vars /\ WF_vars(RunStep)

\* ------------------------------------------- analyze_chat called directly
\* One invocation of analyze_chat(transcript, guidelines=None, model_name)
\* as run_analysis_agent_debug.py makes it: any backend state, any model
\* list, model_name absent, listed or unlisted.
InitAgent ==
  /\ ollama_up \in BOOLEAN
  /\ models \in ModelLists
  /\ has_agent_default \in BOOLEAN
  /\ loaded_models = {}
  /\ db_status = "pending"
  /\ pc = "an_start"
  /\ run_no = 0
  /\ agents = NoAgents
  /\ agent_err = NoErr
  /\ overall_status = "none"
  /\ cache = NoCache
  /\ available_models = <<>>
  /\ stage_model \in {None, "deepseek", "llama", "mistral"}
  /\ gen = NoGen
  /\ load_calls = 0
  /\ attempt = 0
  /\ an_result = "none"
  /\ an_guidelines = <<>>
  /\ an_lists = NoLists
  /\ missing = {}
  /\ retry_reason = "none"
  /\ eval_result = "none"
  /\ eval_value = NoValue
  /\ rec_result = "none"
  /\ rec_value = NoRecValue
  /\ selected_model = None
  /\ exit_path = "none"
  /\ obs = NoObs
  /\ text = <<>>
  /\ parser_out = NoParse
  /\ other_pc = "idle"

NextAgent ==
  \/ BackendToggle
  \/ AnalysisStart
  \/ AnalysisAttempt

SpecAgent == InitAgent /\ [][NextAgent]_vars

\* ------------------------------------------- evaluate_chat called directly
\* One invocation of evaluate_chat(transcript, model_name) outside the
\* pipeline, as test_evaluation_agent.py makes it: any backend state, any
\* model list, model_name absent, listed or unlisted.
InitEval ==
  /\ ollama_up \in BOOLEAN
  /\ models \in ModelLists
  /\ has_agent_default \in BOOLEAN
  /\ loaded_models = {}
  /\ db_status = "pending"
  /\ pc = "eval_gen"
  /\ run_no = 0
  /\ agents = NoAgents
  /\ agent_err = NoErr
  /\ overall_status = "none"
  /\ cache = NoCache
  /\ available_models = <<>>
  /\ stage_model \in {None, "deepseek", "llama", "mistral"}
  /\ gen = NoGen
  /\ load_calls = 0
  /\ attempt = 0
  /\ an_result = "none"
  /\ an_guidelines = <<>>
  /\ an_lists = NoLists
  /\ missing = {}
  /\ retry_reason = "none"
  /\ eval_result = "none"
  /\ eval_value = NoValue
  /\ rec_result = "none"
  /\ rec_value = NoRecValue
  /\ selected_model = None
  /\ exit_path = "none"
  /\ obs = NoObs
  /\ text = <<>>
  /\ parser_out = NoParse
  /\ other_pc = "idle"

NextEval ==
  \/ BackendToggle
  \/ EvalGenerate
  \/ EvalSummary
  \/ EvalFinally

SpecEval == InitEval /\ [][NextEval]_vars
\* ------------------------------------ _extract_first_valid_json on a text
\* A text is a list of pieces:
\*   "{" "}"  a brace character outside any string
\*   "w"      prose without braces
\*   "f"      a code fence: three backquotes, with or without json
\*   "K"      the members "key_issues": [..], "positive_highlights": [..],
\*            "guideline_adherence": [..]
\*   "L"      the member "key_issues": "none" (a required key, not a list)
\*   "b"      the member "note": "{" (a brace character inside a string)
\*   "s"      the elements 1, 2 (between braces a set literal, not JSON)
\* Members and elements that follow one another, fences aside, are separated
\* by commas.
Tokens == {"{", "}", "w", "f", "K", "L", "b", "s"}
Members == {"K", "L", "b"}
Texts == UNION {[1..n -> Tokens] : n \in 0..MaxLen}

\* line 58: fences removed (surrounding whitespace is not drawn)
cleaned(t) == SelectSeq(t, LAMBDA c : c # "f")

\* find_json_candidates, lines 59-72: the spans <<start, end>> yielded, in
\* order; the scan counts every brace character, inside strings too
RECURSIVE scan_candidates(_, _, _, _)
scan_candidates(s, i, depth, start) ==
  IF i > Len(s) THEN <<>>
  ELSE IF s[i] \in {"{", "b"}
    THEN scan_candidates(s, i + 1, depth + 1, IF depth = 0 THEN i ELSE start)
  ELSE IF s[i] = "}" /\ depth > 0
    THEN IF depth = 1
           THEN <<<<start, i>>>> \o scan_candidates(s, i + 1, 0, start)
           ELSE scan_candidates(s, i + 1, depth - 1, start)
  ELSE scan_candidates(s, i + 1, depth, start)

find_json_candidates(s) == scan_candidates(s, 1, 0, 0)

\* what stands between the braces of a span
content(s, span) == SubSeq(s, span[1] + 1, span[2] - 1)

\* lines 74-85: json.loads, json.loads after the repairs, ast.literal_eval.
\* Members between braces load as a dict; elements alone evaluate to a set;
\* anything else, and a span that starts inside a string, fails all three
parse_candidate(s, span) ==
  LET c == content(s, span) IN
  IF s[span[1]] # "{" THEN "fail"
  ELSE IF \A i \in DOMAIN c : c[i] \in Members THEN "dict"
  ELSE IF \A i \in DOMAIN c : c[i] = "s" THEN "set"
  ELSE "fail"

\* lines 86-102: after reconciliation (absent required keys become []) every
\* required key is a list; of a repeated key the last member counts
all_lists(c) ==
  \A i \in DOMAIN c : c[i] = "L" => \E j \in DOMAIN c : j > i /\ c[j] = "K"

returned(kind, c) == [kind |-> kind, obj |-> c]

\* lines 104-126: json.loads of the whole cleaned text; any exception is
\* swallowed
last_resort(s) ==
  IF /\ Len(s) >= 2
     /\ s[1] = "{"
     /\ s[Len(s)] = "}"
     /\ \A i \in 2..(Len(s) - 1) : s[i] \in Members
     /\ all_lists(SubSeq(s, 2, Len(s) - 1))
    THEN returned("object", SubSeq(s, 2, Len(s) - 1))
    ELSE returned("None", <<>>)

\* lines 73-103: the loop over the candidates; obj.keys() of line 88 raises
\* AttributeError on a set, outside every try block
RECURSIVE try_candidates(_, _)
try_candidates(s, spans) ==
  IF spans = <<>> THEN last_resort(s)
  ELSE LET p == parse_candidate(s, Head(spans)) IN
       IF p = "set" THEN returned("raises", <<>>)
       ELSE IF p = "dict" /\ all_lists(content(s, Head(spans)))
         THEN returned("object", content(s, Head(spans)))
       ELSE try_candidates(s, Tail(spans))

first_valid_json(t) == try_candidates(cleaned(t), find_json_candidates(cleaned(t)))

\* one call _extract_first_valid_json(text)
ExtractFirstValidJson ==
  /\ pc = "parse"
  /\ parser_out' = first_valid_json(text)
  /\ pc' = "parsed"
  /\ UNCHANGED <<env_vars, text, other_pc, loaded_models, db_status, run_no, agents,
                 agent_err, overall_status, cache, available_models,
                 stage_model, gen, load_calls, agent_vars, exit_path, obs>>

InitParser ==
  /\ ollama_up = TRUE
  /\ models = <<"deepseek">>
  /\ has_agent_default = FALSE
  /\ loaded_models = {}
  /\ db_status = "pending"
  /\ pc = "parse"
  /\ run_no = 0
  /\ agents = NoAgents
  /\ agent_err = NoErr
  /\ overall_status = "none"
  /\ cache = NoCache
  /\ available_models = <<>>
  /\ stage_model = None
  /\ gen = NoGen
  /\ load_calls = 0
  /\ attempt = 0
  /\ an_result = "none"
  /\ an_guidelines = <<>>
  /\ an_lists = NoLists
  /\ missing = {}
  /\ retry_reason = "none"
  /\ eval_result = "none"
  /\ eval_value = NoValue
  /\ rec_result = "none"
  /\ rec_value = NoRecValue
  /\ selected_model = None
  /\ exit_path = "none"
  /\ obs = NoObs
  /\ text \in Texts
  /\ parser_out = NoParse
  /\ other_pc = "idle"

NextParser == ExtractFirstValidJson

SpecParser == InitParser /\ [][NextParser]_vars

\* ------------------------------------------- a run for another chat log
\* A second process_chat_log run, for a different chat_log_id, on the same
\* ollama_service and processing_pipeline objects.  It writes its own key of
\* results_cache; what it shares with the first run is the service's
\* current_model.  Nothing in process_chat_log_background awaits a suspending
\* operation (the requests calls block), so the event loop runs one
\* background task to its end before the next: the second run takes its
\* steps while the first is not executing, and the first takes none while
\* the second is under way.  Of the second run the steps that touch the
\* service are drawn, up to its evaluation being recorded.
OtherRunIdle == other_pc \in {"idle", "done"}

\* lines 45-68 of the other run: the checks pass, the evaluation model is
\* chosen and loaded
OtherRunLoad ==
  /\ pc \in {"idle", "start"}
  /\ other_pc = "idle"
  /\ is_ollama_running
  /\ get_available_models # <<>>
  /\ loaded_models' = load_model(choose_model(get_default_model,
                                              get_available_models))
  /\ other_pc' = "eval_finally"
  /\ UNCHANGED <<env_vars, parser_vars, db_status, pc, run_no, agents,
                 agent_err, overall_status, cache, available_models,
                 stage_model, gen, load_calls, agent_vars, exit_path, obs>>

\* evaluate_chat of the other run, lines 139-145: the finally block unloads
OtherRunFinally ==
  /\ other_pc = "eval_finally"
  /\ loaded_models' = unload_model
  /\ other_pc' = "eval_record"
  /\ UNCHANGED <<env_vars, parser_vars, db_status, pc, run_no, agents,
                 agent_err, overall_status, cache, available_models,
                 stage_model, gen, load_calls, agent_vars, exit_path, obs>>

\* line 70 of the other run: unload after the evaluation
OtherRunUnload ==
  /\ other_pc = "eval_record"
  /\ loaded_models' = unload_model
  /\ other_pc' = "done"
  /\ UNCHANGED <<env_vars, parser_vars, db_status, pc, run_no, agents,
                 agent_err, overall_status, cache, available_models,
                 stage_model, gen, load_calls, agent_vars, exit_path, obs>>

NextTwo ==
  \/ OtherRunIdle /\ Next
  \/ ~OtherRunIdle /\ BackendToggle
  \/ OtherRunLoad
  \/ OtherRunFinally
  \/ OtherRunUnload

SpecTwo == Init /\ [][NextTwo]_vars

\* ================================================================ claims
Terminal == {"completed", "failed"}
AllFailed == \A s \in Stages : agents[s] = "failed"

\* C1 (as stated): whenever process_chat_log has returned, overall_status is
\* "failed" exactly when all three stages have status "failed", and
\* "completed" otherwise, on every return path.
C1_Original ==
  pc = "returned" =>
    /\ overall_status \in Terminal
    /\ overall_status = "failed" <=> AllFailed

\* C1 (amended): a return through the final aggregation leaves "failed"
\* exactly when all three stages failed and "completed" otherwise; the two
\* early returns and the outer handler leave "failed" whatever was recorded.
C1_Aggregation ==
  pc = "returned" =>
    IF exit_path = "normal"
      THEN /\ overall_status \in Terminal
           /\ overall_status = "failed" <=> AllFailed
      ELSE overall_status = "failed"

C1_Witness ==
  /\ pc = "returned"
  /\ exit_path = "normal"
  /\ agents["evaluation"] = "failed"
  /\ overall_status = "completed"

\* C2 (as stated): a failed stage does not end the run; when the run has
\* returned with the evaluation recorded as failed, analysis and
\* recommendation have been executed and recorded too.
C2_Original ==
  (pc = "returned" /\ agents["evaluation"] = "failed") =>
    /\ agents["analysis"] # "absent"
    /\ agents["recommendation"] # "absent"

\* C3: stages run in the order evaluation, analysis, recommendation without
\* overlap: a step issues a generation request for a stage only when every
\* earlier stage's outcome is recorded and its own is not yet.
C3_StrictOrder ==
  [][ /\ gen'["evaluation"] > gen["evaluation"] =>
           agents = NoAgents
      /\ gen'["analysis"] > gen["analysis"] =>
           /\ agents["evaluation"] # "absent"
           /\ agents["analysis"] = "absent"
           /\ agents["recommendation"] = "absent"
      /\ gen'["recommendation"] > gen["recommendation"] =>
           /\ agents["evaluation"] # "absent"
           /\ agents["analysis"] # "absent"
           /\ agents["recommendation"] = "absent" ]_vars

C3_Witness ==
  /\ gen["evaluation"] > 0
  /\ gen["analysis"] > 0
  /\ gen["recommendation"] > 0

\* C4: a run that finds the backend unavailable at its start ends at once
\* with overall_status "failed": no load_model call, no generation request
\* and no stage outcome.
C4_BackendUnavailable ==
  exit_path = "ollama" =>
    /\ pc \in {"returned", "idle", "start"}
    /\ overall_status = "failed"
    /\ load_calls = 0
    /\ gen = NoGen
    /\ agents = NoAgents

C4_Witness ==
  /\ pc = "returned"
  /\ exit_path = "ollama"
  /\ cache.overall_status = "failed"

\* C5: the model service never reports two models as loaded.
C5_OneLoadedModel == Cardinality(loaded_models) <= 1

C5_Witness ==
  /\ run_no = 2
  /\ pc = "eval_gen"
  /\ loaded_models = {"deepseek"}

\* C6 (as stated): after each stage, and when process_chat_log has returned,
\* the model service reports no loaded model, whatever the backend did.
C6_Original ==
  pc \in {"an_load", "rec_load", "aggregate", "returned"} => current_model = None

\* C7 (as stated): an overall status that is "completed" or "failed", in
\* results_cache or in the chat log's stored status, never becomes
\* "processing" again.
C7_Original ==
  [][ /\ cache.overall_status \in Terminal => cache'.overall_status # "processing"
      /\ db_status \in Terminal => db_status' # "processing" ]_vars

\* C7 (amended): once the stored status is "completed", it stays "completed"
\* and the overall status in results_cache no longer changes; a "failed"
\* chat log may be processed again, which sets both back to "processing".
C7_CompletedIsFinal ==
  [][ db_status = "completed" =>
        /\ db_status' = "completed"
        /\ cache'.overall_status = cache.overall_status ]_vars

C7_Witness ==
  /\ db_status = "completed"
  /\ pc = "idle"
  /\ cache.overall_status = "completed"

\* C8: the run's snapshot is in results_cache before the next stage issues
\* a request, and a reader of results_cache never sees a stage it has seen
\* as completed or failed change or vanish within the same run.
C8_Snapshot ==
  /\ gen["analysis"] > 0 =>
       /\ cache.present /\ ~cache.aliased /\ cache.run = run_no
       /\ cache_view.agents["evaluation"] \in Terminal
  /\ gen["recommendation"] > 0 =>
       /\ cache.present /\ ~cache.aliased /\ cache.run = run_no
       /\ cache_view.agents["analysis"] \in Terminal

C8_NoStageGoesBackward ==
  [][ /\ C8_Snapshot'
      /\ obs'.run = obs.run =>
           \A s \in Stages :
             obs.agents[s] \in Terminal => obs'.agents[s] = obs.agents[s] ]_vars

C8_Witness ==
  /\ obs.run = run_no
  /\ obs.agents["evaluation"] \in Terminal
  /\ obs.agents["analysis"] = "absent"
  /\ agents["analysis"] \in Terminal
  /\ gen["recommendation"] > 0

\* C9 (as stated): analyze_chat issues at most 3 generation requests, returns
\* a result, and has issued exactly 3 whenever it returns without accepting.
C9_Original ==
  /\ gen["analysis"] <= max_retries
  /\ pc = "an_record" =>
       /\ an_result # "none"
       /\ an_result # "accepted" => gen["analysis"] = max_retries

\* C9 (amended): analyze_chat issues at most 3 generation requests and
\* returns a result; the fallback for spent retries comes after exactly 3
\* requests, the fallbacks for a backend that is not running, an empty model
\* list or a failed model selection come after none, and the fallback for an
\* exception raised while a reply is handled after 1 to 3.
C9_RetryBudget ==
  /\ gen["analysis"] <= max_retries
  /\ pc = "an_record" =>
       /\ an_result # "none"
       /\ an_result = "exhausted" => gen["analysis"] = max_retries
       /\ an_result \in {"not_running", "no_models", "exception_select"} =>
            gen["analysis"] = 0
       /\ an_result \in {"exception_parse", "exception_validate", "exception_build"} =>
            gen["analysis"] \in 1..max_retries

C9_Witness ==
  /\ pc = "an_record"
  /\ an_result = "exhausted"
  /\ gen["analysis"] = max_retries

\* C10 (as stated): analyze_chat returns a result with error_message after a
\* reply failed parsing or validation only when 3 attempts have been made.
C10_Original ==
  (pc = "an_record"
     /\ an_result \in {"exhausted", "exception_parse", "exception_validate"}) =>
    gen["analysis"] = max_retries

\* the list gl has exactly one entry for each configured guideline and no
\* other entry
OnePerGuideline(gl) ==
  /\ Len(gl) = NumGuidelines
  /\ \A g \in Guidelines : Cardinality({i \in DOMAIN gl : gl[i].name = g}) = 1

\* C11: when analyze_chat returns because its attempts are spent, the
\* "guidelines" list of the result has exactly one entry per configured
\* guideline, no more and no fewer, each with passed = false.
C11_ExhaustedFallback ==
  (pc = "an_record" /\ an_result = "exhausted") =>
    /\ OnePerGuideline(an_guidelines)
    /\ \A i \in DOMAIN an_guidelines : an_guidelines[i].passed = FALSE

C11_Witness ==
  /\ pc = "an_record"
  /\ an_result = "exhausted"
  /\ attempt = max_retries
  /\ Len(an_guidelines) = NumGuidelines

\* C12 (as stated): every result analyze_chat returns, accepted or fallback,
\* has in "guidelines" exactly one entry per configured guideline: no
\* duplicate, no omission, no entry for a name that is not configured.
C12_Original ==
  pc = "an_record" => OnePerGuideline(an_guidelines)

\* C13 (as stated): when the attempts are spent and the last reply still
\* lacked configured guidelines, the result lists each of them with
\* passed = false and detail "Unknown".
C13_Original ==
  (pc = "an_record" /\ an_result = "exhausted" /\ retry_reason = "missing") =>
    \A g \in missing :
      \E i \in DOMAIN an_guidelines :
        an_guidelines[i] = [name |-> g, passed |-> FALSE, description |-> "Unknown"]

\* evaluate_chat has built the dict it returns
EvalReturned == pc \in {"eval_finally", "eval_record"}

\* C14 (as stated): an evaluation result returned without error_message has
\* coherence, relevance and politeness scores within [1,5] and a resolution
\* score in {0,1}; no reply with a score outside its range is accepted.
C14_Original ==
  (EvalReturned /\ eval_value.error_message = None) =>
    /\ \A f \in {"coherence", "relevance", "politeness"} :
         eval_value.result[f] \in score_min..score_max
    /\ eval_value.result.resolution \in {0, 1}

\* C15 (as stated): a reply with a score outside its range is retried, and
\* when evaluate_chat returns after such a reply, 3 requests were issued and
\* the result holds the fallback scores 3, 3, 3 and 0 with an error message.
C15_Original ==
  (pc = "eval_record" /\ eval_value.error_message = "range") =>
    /\ gen["evaluation"] = max_retries
    /\ eval_value.result = [coherence |-> 3, relevance |-> 3,
                            politeness |-> 3, resolution |-> 0]

\* C16 (as stated): the result a failed stage hands to the pipeline is never
\* null and has no null field, for evaluation, analysis and recommendation.
C16_Original ==
  /\ (pc = "eval_record" /\ eval_value.error_message # None) =>
       eval_value.result # None
  /\ (pc = "an_record" /\ an_result # "accepted") =>
       OnePerGuideline(an_guidelines)
  /\ (pc = "rec_record" /\ rec_result # "ok") =>
       recommendation_fallback(rec_result).long_term_coaching # None

\* C20 (as stated): in every stage a generation request that returns an
\* error spends one attempt of the stage's budget of 3; the stage fails only
\* when the budget is spent.
C20_Original ==
  /\ (pc = "eval_record" /\ eval_value.error_message = "reply") =>
       gen["evaluation"] = max_retries
  /\ (pc = "an_record" /\ an_result = "exhausted") =>
       gen["analysis"] = max_retries

\* the spans of t that are a syntactically valid object with all required
\* keys: braces around members, the required keys among them and lists
ValidObjects(t) ==
  {span \in (DOMAIN t) \X (DOMAIN t) :
     /\ span[1] < span[2]
     /\ t[span[1]] = "{"
     /\ t[span[2]] = "}"
     /\ \A i \in (span[1] + 1)..(span[2] - 1) : t[i] \in Members
     /\ \E i \in (span[1] + 1)..(span[2] - 1) : t[i] = "K"
     /\ all_lists(content(t, span))}

\* C17 (as stated): for a text that holds one valid object with all required
\* keys, whatever prose, fences and other braces surround it, the parser
\* returns that object.
C17_Original ==
  (pc = "parsed" /\ Cardinality(ValidObjects(text)) = 1) =>
    \E span \in ValidObjects(text) :
      parser_out = returned("object", content(text, span))

\* C18 (as stated): for a text in which no top-level brace span, nor the text
\* as a whole, is an object whose required keys are all lists after
\* reconciliation, the parser returns None.
C18_Original ==
  (/\ pc = "parsed"
   /\ \A i \in DOMAIN find_json_candidates(cleaned(text)) :
        LET span == find_json_candidates(cleaned(text))[i] IN
        ~(/\ parse_candidate(cleaned(text), span) = "dict"
          /\ all_lists(content(cleaned(text), span)))
   /\ last_resort(cleaned(text)).kind = "None") =>
    parser_out.kind = "None"

\* C19 (as stated): a run shares no state with a run for another chat log,
\* so its loaded-model state is what it would be had it executed alone: when
\* the first run of a chat log returns without having loaded a model, the
\* service reports no loaded model.
C19_Original ==
  (pc = "returned" /\ run_no = 1 /\ load_calls = 0) => current_model = None

\* C21 (as stated): a stage treats a generation result as a backend error
\* exactly when the backend call failed or timed out: evaluate_chat returns a
\* reply as its error only if the backend produced that reply as an error,
\* and the advice generate_recommendations returns without error_message is
\* never the backend's error string.
C21_Original ==
  /\ (EvalReturned /\ eval_value.error_message \in {"reply", "generated"}) =>
       eval_value.error_message = "reply"
  /\ (pc = "rec_record" /\ rec_result = "ok") =>
       rec_value.long_term_coaching # ErrorString

\* the choice the statement gives: the override when given and listed, else
\* the default when listed, else the first listed
OverrideDefaultFirst(override, default, avail) ==
  IF override # None /\ override \in model_names(avail) THEN override
  ELSE IF default \in model_names(avail) THEN default
  ELSE avail[1]

\* C22 (as stated): the model evaluate_chat names in a request it sends is
\* the override when given and listed, else the default when listed, else the
\* first listed model, and so always a listed model.
C22_Original ==
  [][ (/\ gen'["evaluation"] > gen["evaluation"]
       /\ is_ollama_running
       /\ get_available_models # <<>>) =>
        selected_model' = OverrideDefaultFirst(stage_model, get_default_model,
                                               get_available_models) ]_vars

\* C30 (as stated): whenever a stage sends a generation request, the model
\* it names is the model the service reports as loaded.
C30_Original ==
  [][ \A s \in Stages :
        (gen'[s] > gen[s] /\ is_ollama_running) =>
          current_model = selected_model' ]_vars

\* C23 (as stated): a result analyze_chat returns before its attempts are
\* spent has a non-empty key_issues and a non-empty highlights list.
C23_Original ==
  (pc = "an_record" /\ an_result # "exhausted") =>
    an_lists.key_issues /\ an_lists.highlights

\* C24 (as stated): the prompt of the first attempt carries no extra
\* instructions; the prompt of an attempt that follows a failed validation
\* carries extra instructions that say what the previous reply lacked: the
\* missing guidelines by name, or the empty issues and highlights.
C24_Original ==
  pc = "an_attempt" =>
    /\ attempt = 0 => extra_instructions(attempt) = NoInstructions
    /\ (attempt > 0 /\ retry_reason = "missing") =>
         extra_instructions(attempt).named = missing
    /\ (attempt > 0 /\ retry_reason = "empty") =>
         extra_instructions(attempt).lists

\* C25 (as stated): a stage recorded in results['agents'] has status 'failed'
\* exactly when the result its agent returned carries an error_message.
C25_Original ==
  \A s \in Stages :
    agents[s] # "absent" => (agents[s] = "failed" <=> agent_err[s])

\* C26 (as stated): a run that got past the checks of the backend and of the
\* model list has recorded every stage when it returns.
C26_Original ==
  (pc = "returned" /\ exit_path \notin {"ollama", "models"}) =>
    \A s \in Stages : agents[s] \in {"completed", "failed"}

\* C28 (as stated): once the background task of a run has stored its records,
\* the status the status endpoint answers is the overall status the pipeline
\* computed for that run, and it is 'completed' or 'failed'.
C28_Original ==
  (pc = "idle" /\ run_no = 1) =>
    /\ endpoint_status = overall_status
    /\ endpoint_status \in {"completed", "failed"}

\* C29: a process request for a chat log whose stored status is PROCESSING or
\* COMPLETED is rejected: it schedules no run and changes nothing; and while
\* a run is anywhere between being scheduled and the commit of its background
\* task the stored status is PROCESSING, so no second run can be scheduled
\* beside it.  The handler has no suspension point between reading the status
\* (line 138) and add_task (149), so concurrent requests of the one server
\* process interleave as whole steps.
C29_OneRunInFlight ==
  /\ db_status \in {"processing", "completed"} => ~ENABLED process_chat_log_route
  /\ pc # "idle" => db_status = "processing"

\* a first run is under way, the bound on runs would still admit another
\* request, and the request is refused because of the stored status
C29_Witness ==
  /\ pc = "eval_gen"
  /\ db_status = "processing"
  /\ run_no < MaxRuns
  /\ ~ENABLED process_chat_log_route

\* C27: every scheduled run returns from process_chat_log, through the normal
\* exit, an early return or the outer handler, with overall_status
\* 'completed' or 'failed'; and the background task then leaves the stored
\* status of the chat log at COMPLETED or FAILED.
C27_TerminalStatus ==
  /\ [](pc = "returned" => overall_status \in {"completed", "failed"})
  /\ (pc = "start") ~> (pc = "returned")
  /\ (pc = "returned") ~> (pc = "idle" /\ db_status \in {"completed", "failed"})

C27_Witness ==
  /\ pc = "idle"
  /\ run_no = 1
  /\ exit_path = "handler"
  /\ overall_status = "failed"
  /\ db_status = "failed"
====
